---- MODULE Spec2Model ----
(***************************************************************************)
(* Rope data structure backed by a splay tree ordered by rank              *)
(* (src/rope_data_structure.c).                                            *)
(*                                                                         *)
(* Memory is modelled as a heap of Node structs: a sequence whose index is *)
(* the node's address, address 0 being NULL.  A SplayTree struct is a      *)
(* record [null, root, size]; a SplayTree* that is NULL is the record      *)
(* NullTree.  Every C function is an operator from the memory it reads to  *)
(* the memory it leaves, with its assignments applied in source order.     *)
(***************************************************************************)
EXTENDS Integers, Sequences, FiniteSets, TLC

\* ------------------------------------------------------------------ bounds
\* Largest number of Node structs ever allocated.
MaxNodes == 4
\* Largest number of tree handles the caller holds at one time.
MaxTrees == 2
\* How many calls made on a damaged heap are followed.
MaxDamaged == 2
\* Longest text the scenario program loads.
MaxText == 6
\* The characters handed to the inserts: the n-th node created holds the n-th
\* letter.  No code tests a value, so distinct letters lose no behaviour and
\* make every reordering of the text visible.
Letters == <<"a", "b", "c", "d", "e", "f", "g", "h">>

\* ------------------------------------------------------ program constants
NULL == 0
\* //#define DEBUG : the bounds checks of locate and insert are compiled out.
DEBUG == FALSE

\* ------------------------------------------------------------ constructors
createNode(value) ==
    [value |-> value, parent |-> NULL, left |-> NULL, right |-> NULL, size |-> 1]

createTree == [null |-> FALSE, root |-> NULL, size |-> 0]

\* The value of a SplayTree* that is NULL.
NullTree == [null |-> TRUE, root |-> NULL, size |-> 0]

\* The idiom (p ? p->size : 0).
sizeOf(h, p) == IF p # NULL THEN h[p].size ELSE 0

\* ------------------------------------------------------- single assignments
\* n->parent = p;  n->left = c;  n->right = c;
setParent(h, n, p) == [h EXCEPT ![n].parent = p]
setLeft(h, n, c) == [h EXCEPT ![n].left = c]
setRight(h, n, c) == [h EXCEPT ![n].right = c]

\* n->size = (n->left ? n->left->size : 0) + (n->right ? n->right->size : 0) + 1;
recount(h, n) ==
    [h EXCEPT ![n].size = sizeOf(h, h[n].left) + sizeOf(h, h[n].right) + 1]

\* A variant that always hangs up in the left slot of parent.
relinkLeft(h, parent, node, up) ==
    IF parent # NULL THEN setLeft(h, parent, up) ELSE h

\* if (parent) { if (node == parent->left) parent->left = up; else parent->right = up; }
relink(h, parent, node, up) ==
    IF parent # NULL
    THEN IF node = h[parent].left THEN setLeft(h, parent, up) ELSE setRight(h, parent, up)
    ELSE h

\* if (B) B->parent = node;
adopt(h, B, node) == IF B # NULL THEN setParent(h, B, node) ELSE h

\* --------------------------------------------------------------- rotations
\* A memory st is [node |-> heap, tree |-> the SplayTree the call works on].
rotateRight(st, node) ==
    LET parent == st.node[node].parent
        Y == st.node[node].left
        B == st.node[Y].right
    IN  IF Y = NULL THEN st
        ELSE [node |-> recount(recount(
                         setLeft(adopt(setRight(setParent(
                           relink(setParent(st.node, Y, parent), parent, node, Y),
                           node, Y), Y, node), B, node), node, B),
                         node), Y),
              tree |-> IF parent # NULL THEN st.tree ELSE [st.tree EXCEPT !.root = Y]]

rotateLeft(st, node) ==
    LET parent == st.node[node].parent
        X == st.node[node].right
        B == st.node[X].left
    IN  IF X = NULL THEN st
        ELSE [node |-> recount(recount(
                         setRight(adopt(setLeft(setParent(
                           relink(setParent(st.node, X, parent), parent, node, X),
                           node, X), X, node), B, node), node, B),
                         node), X),
              tree |-> IF parent # NULL THEN st.tree ELSE [st.tree EXCEPT !.root = X]]

\* ------------------------------------------------------------------- splay
\* One iteration of the while (parent) loop: zig, zig-zig or zig-zag.
splayStep(st, node) ==
    LET parent == st.node[node].parent
        grandParent == st.node[parent].parent
    IN  IF grandParent = NULL
        THEN IF node = st.node[parent].left
             THEN rotateRight(st, parent)
             ELSE rotateLeft(st, parent)
        ELSE IF node = st.node[parent].left
        THEN IF parent = st.node[grandParent].left
             THEN rotateRight(rotateRight(st, grandParent), parent)
             ELSE rotateLeft(rotateRight(st, parent), grandParent)
        ELSE IF node = st.node[parent].right
        THEN IF parent = st.node[grandParent].right
             THEN rotateLeft(rotateLeft(st, grandParent), parent)
             ELSE rotateRight(rotateLeft(st, parent), grandParent)
        ELSE st

\* The parent and child links of a heap: all that the splay loop's tests read.
links(h) == [n \in DOMAIN h |-> <<h[n].parent, h[n].left, h[n].right>>]

\* The while (parent) loop.  Its tests read links only and it is
\* deterministic, so it never ends exactly when the links come back to what
\* they were at an earlier iteration (seen): "hang".
RECURSIVE splayLoop(_, _, _)
splayLoop(st, node, seen) ==
    IF st.node[node].parent # NULL
    THEN IF links(st.node) \in seen
         THEN [node |-> st.node, tree |-> st.tree, out |-> "hang"]
         ELSE splayLoop(splayStep(st, node), node, seen \cup {links(st.node)})
    ELSE [node |-> st.node, tree |-> st.tree, out |-> "ok"]

\* Result: the memory after the call and how the call ended.
splay(st, node) ==
    IF node = NULL
    THEN [node |-> st.node, tree |-> st.tree, out |-> "ok"]
    ELSE splayLoop(st, node, {})

\* ------------------------------------------------- order-statistic locator
\* A variant of the descent that gives NULL when it would have to go right of
\* a node that has no right child.
RECURSIVE descendNoClamp(_, _, _, _)
descendNoClamp(h, node, k, seen) ==
    IF node = NULL THEN [ret |-> NULL, out |-> "ok"]
    ELSE IF <<node, k>> \in seen THEN [ret |-> node, out |-> "hang"]
    ELSE IF k = sizeOf(h, h[node].left) THEN [ret |-> node, out |-> "ok"]
    ELSE IF k < sizeOf(h, h[node].left)
         THEN IF h[node].left # NULL
              THEN descendNoClamp(h, h[node].left, k, seen \cup {<<node, k>>})
              ELSE [ret |-> node, out |-> "ok"]
         ELSE descendNoClamp(h, h[node].right, k - sizeOf(h, h[node].left) - 1,
                             seen \cup {<<node, k>>})

\* The descent of orderStatisticZeroBasedRanking: the node the loop stops at,
\* or "hang" when the loop comes back to a (node, k) it has been at.
RECURSIVE descend(_, _, _, _)
descend(h, node, k, seen) ==
    IF node = NULL THEN [ret |-> NULL, out |-> "ok"]
    ELSE IF <<node, k>> \in seen THEN [ret |-> node, out |-> "hang"]
    ELSE IF k = sizeOf(h, h[node].left) THEN [ret |-> node, out |-> "ok"]
    ELSE IF k < sizeOf(h, h[node].left)
         THEN IF h[node].left # NULL
              THEN descend(h, h[node].left, k, seen \cup {<<node, k>>})
              ELSE [ret |-> node, out |-> "ok"]
         ELSE IF h[node].right # NULL
              THEN descend(h, h[node].right, k - sizeOf(h, h[node].left) - 1,
                           seen \cup {<<node, k>>})
              ELSE [ret |-> node, out |-> "ok"]

\* _splay(tree, node); return node;  after a descent d.
located(st, d) ==
    IF d.out # "ok"
    THEN [node |-> st.node, tree |-> st.tree, ret |-> NULL, out |-> d.out]
    ELSE [ret |-> d.ret] @@ splay(st, d.ret)

\* Result: the memory after the call, the returned Node*, and how the call
\* ended: "ok", "exit" (the DEBUG check called exit(-1)) or "hang".
orderStatisticZeroBasedRanking(st, k) ==
    IF DEBUG /\ k >= st.tree.size
    THEN [node |-> st.node, tree |-> st.tree, ret |-> NULL, out |-> "exit"]
    ELSE located(st, descend(st.node, st.tree.root, k, {}))

\* --------------------------------------------------------------- traversal
\* The loop of inOrder: an explicit stack, the visited values appended to res.
\* A stack deeper than the heap has nodes, or more visits than the unfolding
\* of an acyclic heap has nodes, means the child links form a cycle and the
\* walk never ends: the text is then cut with the mark "~".
RECURSIVE inOrderLoop(_, _, _, _)
inOrderLoop(h, current, stack, res) ==
    IF current # NULL
    THEN IF Len(stack) >= Len(h) \/ Len(res) >= 2 ^ Len(h)
         THEN Append(res, "~")
         ELSE inOrderLoop(h, h[current].left, Append(stack, current), res)
    ELSE IF stack # <<>>
         THEN inOrderLoop(h, h[stack[Len(stack)]].right,
                          SubSeq(stack, 1, Len(stack) - 1),
                          Append(res, h[stack[Len(stack)]].value))
         ELSE res

\* The characters inOrder writes for a tree, in the order it writes them.
inOrder(h, tree) == inOrderLoop(h, tree.root, <<>>, <<>>)

\* result[index++] = current->value, index starting at 0: the characters of
\* the walk laid over what the static buffer held; nothing writes a '\0'.
written(buf, text) == text \o SubSeq(buf, Len(text) + 1, Len(buf))

\* The string inOrder returns, buf being the static buffer it finds: the
\* buffer untouched for an empty tree (if (!current) return result;).
rendered(buf, h, tree) ==
    IF tree.root = NULL THEN buf ELSE written(buf, inOrder(h, tree))

\* ----------------------------------------------------------------- inserts
\* tree->size++; tree->root = node;
newRoot(tree, node) == [[tree EXCEPT !.size = @ + 1] EXCEPT !.root = node]

\* node->left = last; node->size = last->size + 1; last->parent = node;
linkAtEnd(h, node, last) ==
    setParent([setLeft(h, node, last) EXCEPT ![node].size = h[last].size + 1],
              last, node)

\* Inserting at the end of the whole text, r being what the locator returned.
insertAtEnd(r, node) ==
    IF r.out # "ok"
    THEN [node |-> r.node, tree |-> r.tree, out |-> r.out]
    ELSE [node |-> linkAtEnd(r.node, node, r.ret),
          tree |-> newRoot(r.tree, node), out |-> "ok"]

\* right->size = (right->right ? right->right->size : 0) + 1;
recountRight(h, right) == [h EXCEPT ![right].size = sizeOf(h, h[right].right) + 1]

\* node->right = right; node->left = right->left; right->parent = node;
\* right->left = NULL; and the two size assignments.
linkBefore(h, node, right) ==
    recount(recountRight(
              setLeft(setParent(setLeft(setRight(h, node, right),
                                        node, h[right].left),
                                right, node),
                      right, NULL),
              right),
            node)

\* Inserting in the middle (or at the beginning), r being what the locator
\* returned.
insertBefore(r, node) ==
    IF r.out # "ok"
    THEN [node |-> r.node, tree |-> r.tree, out |-> r.out]
    ELSE [node |-> linkBefore(r.node, node, r.ret),
          tree |-> newRoot(r.tree, node), out |-> "ok"]

\* The body of insert once node has been created.
insertNode(st, node, rank) ==
    IF rank = st.tree.size /\ st.tree.size > 0
    THEN insertAtEnd(orderStatisticZeroBasedRanking(st, rank - 1), node)
    ELSE IF st.tree.size = 0
    THEN [node |-> st.node, tree |-> newRoot(st.tree, node), out |-> "ok"]
    ELSE insertBefore(orderStatisticZeroBasedRanking(st, rank), node)

\* Result: the memory after the call and how the call ended.
insert(st, rank, value) ==
    IF DEBUG /\ rank > st.tree.size
    THEN [node |-> st.node, tree |-> st.tree, out |-> "exit"]
    ELSE insertNode([node |-> Append(st.node, createNode(value)), tree |-> st.tree],
                    Len(st.node) + 1, rank)

\* A variant of insertSpecific that hangs the old root to the right of the
\* new node.
insertSpecificAsRight(h, tree, node) ==
    [node |-> [setRight(adopt(h, tree.root, node), node, tree.root)
                 EXCEPT ![node].size = sizeOf(h, tree.root) + 1],
     tree |-> [[tree EXCEPT !.root = node] EXCEPT !.size = @ + 1]]

\* The body of insertSpecific once node has been created.
insertSpecificNode(h, tree, node) ==
    [node |-> [setLeft(adopt(h, tree.root, node), node, tree.root)
                 EXCEPT ![node].size = sizeOf(h, tree.root) + 1],
     tree |-> [[tree EXCEPT !.root = node] EXCEPT !.size = @ + 1]]

insertSpecific(st, value) ==
    insertSpecificNode(Append(st.node, createNode(value)), st.tree, Len(st.node) + 1)

\* ------------------------------------------------------- allocation failure
\* createNode when malloc returns NULL: node->value = value stores through a
\* null pointer, which is undefined behaviour.  Where the store does not trap,
\* whatever is stored through node is lost and the caller goes on with
\* node == NULL.

\* insertSpecific from "if (tree->root)" on, node being NULL.
insertSpecificNull(h, tree) ==
    [node |-> adopt(h, tree.root, NULL), tree |-> newRoot(tree, NULL), out |-> "ok"]

insertSpecificNoMem(st, ub) ==
    IF ub = "trap"
    THEN [node |-> st.node, tree |-> st.tree, out |-> "crash"]
    ELSE insertSpecificNull(st.node, st.tree)

\* last->parent = node; tree->size++; tree->root = node;  node being NULL.
insertAtEndNull(r) ==
    IF r.out # "ok"
    THEN [node |-> r.node, tree |-> r.tree, out |-> r.out]
    ELSE [node |-> setParent(r.node, r.ret, NULL),
          tree |-> newRoot(r.tree, NULL), out |-> "ok"]

\* right->parent = node; right->left = NULL; right->size = ...; tree->size++;
\* tree->root = node;  node being NULL.
insertBeforeNull(r) ==
    IF r.out # "ok"
    THEN [node |-> r.node, tree |-> r.tree, out |-> r.out]
    ELSE [node |-> recountRight(setLeft(setParent(r.node, r.ret, NULL), r.ret, NULL),
                                r.ret),
          tree |-> newRoot(r.tree, NULL), out |-> "ok"]

\* The body of insert after createNode, node being NULL.
insertNull(st, rank) ==
    IF rank = st.tree.size /\ st.tree.size > 0
    THEN insertAtEndNull(orderStatisticZeroBasedRanking(st, rank - 1))
    ELSE IF st.tree.size = 0
    THEN [node |-> st.node, tree |-> newRoot(st.tree, NULL), out |-> "ok"]
    ELSE insertBeforeNull(orderStatisticZeroBasedRanking(st, rank))

insertNoMem(st, rank, ub) ==
    IF DEBUG /\ rank > st.tree.size
    THEN [node |-> st.node, tree |-> st.tree, out |-> "exit"]
    ELSE IF ub = "trap"
    THEN [node |-> st.node, tree |-> st.tree, out |-> "crash"]
    ELSE insertNull(st, rank)

\* ------------------------------------------------------------------- merge
\* The right-descent of subtreeMaximum, "hang" when it comes back to a node.
RECURSIVE rightmost(_, _, _)
rightmost(h, node, seen) ==
    IF node \in seen THEN [ret |-> node, out |-> "hang"]
    ELSE IF h[node].right # NULL
         THEN rightmost(h, h[node].right, seen \cup {node})
         ELSE [ret |-> node, out |-> "ok"]

subtreeMaximum(st, node) ==
    IF node = NULL
    THEN [node |-> st.node, tree |-> st.tree, ret |-> NULL, out |-> "ok"]
    ELSE located(st, rightmost(st.node, node, {}))

\* tree1->size = root1->size; return tree1;
merged(h, tree1, root1) ==
    [node |-> h, ret |-> [tree1 EXCEPT !.size = h[root1].size], out |-> "ok"]

\* A faulty attach: root2->parent is set but root1->right = root2 is left out.
attachParentOnly(m, root2) ==
    IF m.out # "ok"
    THEN [node |-> m.node, ret |-> m.tree, out |-> m.out]
    ELSE merged(recount(setParent(m.node, root2, m.ret), m.ret), m.tree, m.ret)

\* root2->parent = root1; root1->right = root2; root1->size = ...;  and the
\* return, m being what subtreeMaximum returned.
attach(m, root2) ==
    IF m.out # "ok"
    THEN [node |-> m.node, ret |-> m.tree, out |-> m.out]
    ELSE merged(recount(setRight(setParent(m.node, root2, m.ret), m.ret, root2), m.ret),
                m.tree, m.ret)

\* Result: the heap after the call, the SplayTree the returned pointer
\* designates (NullTree for a NULL return) and how the call ended.
merge(h, tree1, tree2) ==
    IF tree1.null \/ tree1.root = NULL
    THEN [node |-> h, ret |-> tree2, out |-> "ok"]
    ELSE IF tree2.null \/ tree2.root = NULL
    THEN [node |-> h, ret |-> tree1, out |-> "ok"]
    ELSE attach(subtreeMaximum([node |-> h, tree |-> tree1], tree1.root), tree2.root)

\* ------------------------------------------------------------------- split
\* split dereferences root1 without testing it.  When the located node is
\* NULL (the tree is empty) the accesses through it are undefined; ub names
\* what the build does with them: "trap" (the access faults and the program
\* ends) or "notrap" (reads through NULL yield 0, writes through it are lost).
UBOutcomes == {"trap", "notrap"}

\* A tree made by createTree and given a root: root NULL leaves it empty.
treeOf(h, root) ==
    IF root # NULL
    THEN [[createTree EXCEPT !.root = root] EXCEPT !.size = h[root].size]
    ELSE createTree

\* root1->right = NULL; root1->size = ...;
detach(h, root1) == recount(setRight(h, root1, NULL), root1)

\* A faulty split: *tree2 is created but never given root2.
handBackNoRight(h, tree, root1, root2) ==
    [node |-> adopt(h, root2, NULL), tree |-> tree,
     tree1 |-> treeOf(h, root1), tree2 |-> createTree, out |-> "ok"]

\* The two createTree calls and what follows them, h being the heap they
\* find and tree the SplayTree split was given.
handBack(h, tree, root1, root2) ==
    [node |-> adopt(h, root2, NULL), tree |-> tree,
     tree1 |-> treeOf(h, root1), tree2 |-> treeOf(h, root2), out |-> "ok"]

\* The body of split, r being what the locator returned.
splitAt(r, ub) ==
    IF r.out # "ok"
    THEN [node |-> r.node, tree |-> r.tree,
          tree1 |-> NullTree, tree2 |-> NullTree, out |-> r.out]
    ELSE IF r.ret = NULL
    THEN IF ub = "trap"
         THEN [node |-> r.node, tree |-> r.tree,
               tree1 |-> NullTree, tree2 |-> NullTree, out |-> "crash"]
         ELSE [node |-> r.node, tree |-> r.tree,
               tree1 |-> createTree, tree2 |-> createTree, out |-> "ok"]
    ELSE handBack(detach(r.node, r.ret), r.tree, r.ret, r.node[r.ret].right)

\* Result: the heap, the SplayTree passed in (as the call leaves it), the two
\* SplayTrees handed back through tree1 and tree2, and how the call ended.
split(h, tree, rank, ub) ==
    splitAt(orderStatisticZeroBasedRanking([node |-> h, tree |-> tree], rank), ub)

\* ----------------------------------------------------------- cut and paste
\* What a branch that calls no split leaves: left = NULL, and the tree kept.
noSplit(h, tree) ==
    [node |-> h, tree |-> tree, tree1 |-> NullTree, tree2 |-> tree, out |-> "ok"]

\* A call that does not return: *tree still designates the tree passed in.
stopped(h, tree, out) == [node |-> h, tree |-> tree, out |-> out]

\* *tree = merge(m2, right);  m3 being what the outer merge returned.
process7(orig, m3) ==
    IF m3.out # "ok" THEN stopped(m3.node, orig, m3.out)
    ELSE [node |-> m3.node, tree |-> m3.ret, out |-> "ok"]

\* merge(merge(left, middle), right);  m2 being what the inner merge returned.
process6(orig, right, m2) ==
    IF m2.out # "ok" THEN stopped(m2.node, orig, m2.out)
    ELSE process7(orig, merge(m2.node, m2.ret, right))

\* A faulty inner merge: merge(middle, left) instead of merge(left, middle).
process5MiddleFirst(orig, middle, s3) ==
    IF s3.out # "ok" THEN stopped(s3.node, orig, s3.out)
    ELSE process6(orig, s3.tree2, merge(s3.node, middle, s3.tree1))

\* s3 being what the third split (or its else branch) produced.
process5(orig, middle, s3) ==
    IF s3.out # "ok" THEN stopped(s3.node, orig, s3.out)
    ELSE process6(orig, s3.tree2, merge(s3.node, s3.tree1, middle))

\* A faulty third split: split(left, k, ...) instead of split(left, k - 1, ...).
process4SplitAtK(orig, middle, m1, k, ub) ==
    IF m1.out # "ok" THEN stopped(m1.node, orig, m1.out)
    ELSE process5(orig, middle,
                  IF k > 0 THEN split(m1.node, m1.ret, k, ub)
                           ELSE noSplit(m1.node, m1.ret))

\* if (k > 0) split(left, k - 1, &left, &right); else { right = left; left = NULL; }
process4(orig, middle, m1, k, ub) ==
    IF m1.out # "ok" THEN stopped(m1.node, orig, m1.out)
    ELSE process5(orig, middle,
                  IF k > 0 THEN split(m1.node, m1.ret, k - 1, ub)
                           ELSE noSplit(m1.node, m1.ret))

\* left = merge(left, right);  s2 being what the second split produced.
process3(orig, right, s2, k, ub) ==
    IF s2.out # "ok" THEN stopped(s2.node, orig, s2.out)
    ELSE process4(orig, s2.tree2, merge(s2.node, s2.tree1, right), k, ub)

\* if (i > 0) split(middle, i - 1, &left, &middle);  s1 being what the first
\* split produced.
process2(s1, i, k, ub) ==
    IF s1.out # "ok" THEN stopped(s1.node, s1.tree, s1.out)
    ELSE process3(s1.tree, s1.tree2,
                  IF i > 0 THEN split(s1.node, s1.tree1, i - 1, ub)
                           ELSE noSplit(s1.node, s1.tree1),
                  k, ub)

\* Result: the heap, the SplayTree *tree designates on return, and how the
\* call ended.
process(h, tree, i, j, k, ub) == process2(split(h, tree, j, ub), i, k, ub)

\* --------------------------------------------------------------- reachable
\* The nodes reachable from the nodes in frontier through left and right.
RECURSIVE reach(_, _, _)
reach(h, frontier, acc) ==
    IF frontier \subseteq acc THEN acc
    ELSE reach(h,
               {c \in {h[n].left : n \in frontier \ acc}
                        \cup {h[n].right : n \in frontier \ acc} : c # NULL},
               acc \cup frontier)

\* The nodes of a tree.
nodesOf(h, tree) == IF tree.root = NULL THEN {} ELSE reach(h, {tree.root}, {})

\* struct Node, size: the number of nodes of the subtree, the node included.
sizeAgrees(h, n) == h[n].size = 1 + sizeOf(h, h[n].left) + sizeOf(h, h[n].right)

\* struct Node, parent: the children of n name n as their parent.
childrenAgree(h, n) ==
    /\ h[n].left # NULL => h[h[n].left].parent = n
    /\ h[n].right # NULL => h[h[n].right].parent = n

\* Every way a call of split, or of process, can end: one way, unless the call
\* makes the undefined access, and then one way for each of UBOutcomes.
splitOutcomes(h, tree, rank) ==
    LET r == split(h, tree, rank, "trap")
    IN  IF r.out = "crash"
        THEN {split(h, tree, rank, ub) : ub \in UBOutcomes}
        ELSE {r}

processOutcomes(h, tree, i, j, k) ==
    LET r == process(h, tree, i, j, k, "trap")
    IN  IF r.out = "crash"
        THEN {process(h, tree, i, j, k, ub) : ub \in UBOutcomes}
        ELSE {r}

\* ---------------------------------------------------------------- teardown
\* postOrderFree keeps two stacks that are pushed and popped together
\* (size == boolSize throughout): one sequence of <<node, alreadyEncountered>>.

\* while (current) { stack[size++] = current; boolStack[boolSize++] = 0;
\*                   current = current->left; }
\* The walk is given up once the stack holds more entries than there are
\* nodes: the left links then form a cycle.
RECURSIVE pushLeft(_, _, _)
pushLeft(h, current, stack) ==
    IF current = NULL \/ Len(stack) > Len(h) THEN stack
    ELSE pushLeft(h, h[current].left, Append(stack, <<current, FALSE>>))

\* The larger of two stack heights.
higher(a, b) == IF a >= b THEN a ELSE b

\* The node a pass of while (size) finds on top: marked, it is freed and
\* popped; unmarked, it is marked and its right subtree's left spine pushed.
popped(stack) == SubSeq(stack, 1, Len(stack) - 1)

\* A variant that pushes the right child alone, without its left spine.
markedRightOnly(h, stack) ==
    IF h[stack[Len(stack)][1]].right = NULL
    THEN [stack EXCEPT ![Len(stack)] = <<stack[Len(stack)][1], TRUE>>]
    ELSE Append([stack EXCEPT ![Len(stack)] = <<stack[Len(stack)][1], TRUE>>],
                <<h[stack[Len(stack)][1]].right, FALSE>>)

marked(h, stack) ==
    pushLeft(h, h[stack[Len(stack)][1]].right,
             [stack EXCEPT ![Len(stack)] = <<stack[Len(stack)][1], TRUE>>])

\* while (size) {...}: the pointers passed to free, in order, and the highest
\* the stacks have been filled.  The walk is given up once it has freed more
\* pointers than twice the nodes there are.
RECURSIVE freeLoop(_, _, _, _)
freeLoop(h, stack, freed, peak) ==
    IF stack = <<>> \/ Len(freed) > 2 * Len(h)
    THEN [freed |-> freed, peak |-> peak]
    ELSE IF stack[Len(stack)][2]
    THEN freeLoop(h, popped(stack), Append(freed, stack[Len(stack)][1]), peak)
    ELSE freeLoop(h, marked(h, stack), freed, higher(peak, Len(marked(h, stack))))

\* The first loop of postOrderFree, then the second.
freeFrom(h, stack) == freeLoop(h, stack, <<>>, Len(stack))

postOrderFree(h, tree) == freeFrom(h, pushLeft(h, tree.root, <<>>))

\* A pointer freed twice, or a stack filled past the n = tree->size entries
\* malloc gave it: undefined behaviour.
overrun(f, n) ==
    \/ f.peak > n
    \/ \E x \in 1..Len(f.freed), y \in 1..Len(f.freed) : x # y /\ f.freed[x] = f.freed[y]

\* postOrderFree(tree); free(tree);  f being what postOrderFree freed.
destroyed(f, n, ub) ==
    [freed |-> f.freed, peak |-> f.peak, trees |-> 1,
     out |-> IF overrun(f, n) /\ ub = "trap" THEN "crash" ELSE "ok"]

\* Result: the Node pointers freed, in order, the highest the stacks were
\* filled, the number of SplayTree structs freed and how the call ended.
destroyTree(h, tree, ub) ==
    IF tree.null
    THEN [freed |-> <<>>, peak |-> 0, trees |-> 0, out |-> "ok"]
    ELSE IF tree.root = NULL
    THEN [freed |-> <<>>, peak |-> 0, trees |-> 1, out |-> "ok"]
    ELSE destroyed(postOrderFree(h, tree), tree.size, ub)

\* Every way a call of destroyTree can end.
destroyOutcomes(h, tree) ==
    LET r == destroyTree(h, tree, "trap")
    IN  IF r.out = "crash"
        THEN {destroyTree(h, tree, ub) : ub \in UBOutcomes}
        ELSE {r}

\* ------------------------------------------------------------------- state
\* node  : the heap of Node structs (index = address).
\* trees : the SplayTrees the caller holds (main's tree, and the trees a
\*         caller of split has been handed).
\* last  : the call made last: its name, arguments, the text of the trees it
\*         was given, what it returned and how it ended.
\* result: inOrder's static char result[S_MAX_LEN], up to its first '\0'.
\* frees : what has been passed to free: the Node pointers in order, the
\*         number of SplayTree structs, and the highest the stacks of
\*         postOrderFree have been filled.
VARIABLES node, trees, last, result, frees

vars == <<node, trees, last, result, frees>>

\* Nothing has been freed.
NoFrees == [nodes |-> <<>>, trees |-> 0, peak |-> 0]

\* A call that neither renders nor frees.
Keep == UNCHANGED <<result, frees>>

\* The character the next insert is handed.
NextChar == {Letters[Len(node) + 1]}

\* How far past its largest valid value an argument is tried.
MaxOver == 2

NoCall == [op |-> "none", args |-> <<>>, n |-> 0, pre |-> <<>>, pre2 |-> <<>>,
           rt |-> <<>>, ret |-> NULL, at |-> 0, at2 |-> 0, out |-> "ok", dmg |-> 0]

\* main: SplayTree *tree = createTree();
Init ==
    /\ node = <<>>
    /\ trees = <<createTree>>
    /\ last = NoCall
    /\ result = <<>>
    /\ frees = NoFrees

\* Some tree the caller holds breaks the invariant struct Node documents.
Damaged ==
    \E t \in 1..Len(trees) :
        \/ trees[t].root # NULL /\ node[trees[t].root].parent # NULL
        \/ \E n \in nodesOf(node, trees[t]) :
              ~sizeAgrees(node, n) \/ ~childrenAgree(node, n)

\* The program is still running (no exit(-1), no fault, no endless loop).
\* On a damaged heap the size fields can grow without bound, so the calls
\* made on one are followed MaxDamaged deep.
Running ==
    /\ last.out = "ok"
    /\ Damaged => last.dmg < MaxDamaged

\* The record of a call made now, before its fields are filled in.
Call == [NoCall EXCEPT !.dmg = IF Damaged THEN last.dmg + 1 ELSE last.dmg]

Handles == 1..Len(trees)

\* The caller's trees once the trees at the indices in gone are given up.
RECURSIVE without(_, _, _)
without(ts, gone, n) ==
    IF n > Len(ts) THEN <<>>
    ELSE IF n \in gone THEN without(ts, gone, n + 1)
         ELSE <<ts[n]>> \o without(ts, gone, n + 1)

\* No call has been made yet but those that load the text.
AfterLoad == last.op \in {"none", "insertSpecific"}

\* The arguments process documents as valid for a tree of n characters.
ValidTriple(n, i, j, k) == i <= j /\ j <= n - 1 /\ k <= n - (j - i + 1)

\* ----------------------------------------------------------------- actions
CreateTree ==
    /\ Running
    /\ Len(trees) < MaxTrees
    /\ trees' = Append(trees, createTree)
    /\ last' = [Call EXCEPT !.op = "createTree", !.at = Len(trees) + 1]
    /\ UNCHANGED node
    /\ Keep

DoInsertSpecific(t, c) ==
    LET r == insertSpecific([node |-> node, tree |-> trees[t]], c)
    IN  /\ node' = r.node
        /\ trees' = [trees EXCEPT ![t] = r.tree]
        /\ last' = [Call EXCEPT !.op = "insertSpecific", !.n = trees[t].size,
                                  !.pre = inOrder(node, trees[t]),
                                  !.ret = Len(node) + 1, !.at = t]
        /\ Keep

InsertSpecific ==
    /\ Running
    /\ Len(node) < MaxNodes
    /\ \E t \in Handles, c \in NextChar : DoInsertSpecific(t, c)

DoInsert(t, rank, c) ==
    LET r == insert([node |-> node, tree |-> trees[t]], rank, c)
    IN  /\ node' = r.node
        /\ trees' = [trees EXCEPT ![t] = r.tree]
        /\ last' = [Call EXCEPT !.op = "insert", !.args = <<rank>>, !.n = trees[t].size,
                                  !.pre = inOrder(node, trees[t]),
                                  !.ret = Len(node) + 1, !.at = t, !.out = r.out]
        /\ Keep

Insert ==
    /\ Running
    /\ Len(node) < MaxNodes
    /\ \E t \in Handles, c \in NextChar :
         \E rank \in 0..trees[t].size : DoInsert(t, rank, c)

\* insert with a rank past the end, as the first call after loading.
InsertOut ==
    /\ Running
    /\ AfterLoad
    /\ Len(node) < MaxNodes
    /\ \E t \in Handles, c \in NextChar :
         \E rank \in (trees[t].size + 1)..(trees[t].size + MaxOver) :
            DoInsert(t, rank, c)

DoLocate(t, k) ==
    LET r == orderStatisticZeroBasedRanking([node |-> node, tree |-> trees[t]], k)
    IN  /\ node' = r.node
        /\ trees' = [trees EXCEPT ![t] = r.tree]
        /\ last' = [Call EXCEPT !.op = "locate", !.args = <<k>>, !.n = trees[t].size,
                                  !.pre = inOrder(node, trees[t]),
                                  !.ret = r.ret, !.at = t, !.out = r.out]
        /\ Keep

Locate ==
    /\ Running
    /\ \E t \in Handles : \E k \in 0..(trees[t].size - 1) : DoLocate(t, k)

\* The locator with a rank past the end, as the first call after loading.
LocateOut ==
    /\ Running
    /\ AfterLoad
    /\ \E t \in Handles :
         \E k \in trees[t].size..(trees[t].size + MaxOver - 1) : DoLocate(t, k)

\* split(tree, rank, &tree1, &tree2): the caller gives up tree and holds
\* tree1 (in its place) and tree2.
DoSplit(t, rank, r) ==
        /\ node' = r.node
        /\ trees' = IF r.out = "ok"
                    THEN Append([trees EXCEPT ![t] = r.tree1], r.tree2)
                    ELSE [trees EXCEPT ![t] = r.tree]
        /\ last' = [Call EXCEPT !.op = "split", !.args = <<rank>>, !.n = trees[t].size,
                                  !.pre = inOrder(node, trees[t]),
                                  !.rt = <<inOrder(node, trees[t])>>,
                                  !.ret = r.tree1.root,
                                  !.at = t, !.at2 = Len(trees) + 1, !.out = r.out]
        /\ Keep

Split ==
    /\ Running
    /\ Len(trees) < MaxTrees
    /\ \E t \in Handles :
         \E rank \in 0..(trees[t].size - 1) :
            \E r \in splitOutcomes(node, trees[t], rank) : DoSplit(t, rank, r)

\* split with a rank past the end, as the first call after loading.
SplitOut ==
    /\ Running
    /\ AfterLoad
    /\ Len(trees) < MaxTrees
    /\ \E t \in Handles :
         \E rank \in trees[t].size..(trees[t].size + MaxOver - 1) :
            \E r \in splitOutcomes(node, trees[t], rank) : DoSplit(t, rank, r)

\* merge(tree1, tree2), a = 0 or b = 0 standing for a NULL argument: the
\* caller gives up both trees and holds the returned one (first in trees).
DoMerge(a, b) ==
    LET tree1 == IF a = 0 THEN NullTree ELSE trees[a]
        tree2 == IF b = 0 THEN NullTree ELSE trees[b]
        r == merge(node, tree1, tree2)
        rest == without(trees, {a, b}, 1)
    IN  /\ node' = r.node
        /\ trees' = IF r.out # "ok" THEN trees
                    ELSE IF r.ret.null THEN rest ELSE <<r.ret>> \o rest
        /\ last' = [Call EXCEPT !.op = "merge", !.args = <<a, b>>,
                                  !.pre = inOrder(node, tree1),
                                  !.pre2 = inOrder(node, tree2),
                                  !.rt = IF last.op = "split" /\ a = last.at
                                            /\ b = last.at2
                                         THEN last.rt ELSE <<>>,
                                  !.ret = r.ret.root,
                                  !.at = IF r.ret.null THEN 0 ELSE 1,
                                  !.out = r.out]
        /\ Keep

Merge ==
    /\ Running
    /\ \E a \in 0..Len(trees), b \in 0..Len(trees) :
         /\ (a = b => a = 0)
         /\ DoMerge(a, b)

DoProcess(t, i, j, k, r) ==
        /\ node' = r.node
        /\ trees' = [trees EXCEPT ![t] = r.tree]
        /\ last' = [Call EXCEPT !.op = "process", !.args = <<i, j, k>>, !.n = trees[t].size,
                                  !.pre = inOrder(node, trees[t]),
                                  !.ret = r.tree.root, !.at = t, !.out = r.out]
        /\ Keep

Process ==
    /\ Running
    /\ \E t \in Handles :
         \E i \in 0..trees[t].size, j \in 0..trees[t].size, k \in 0..trees[t].size :
            /\ ValidTriple(trees[t].size, i, j, k)
            /\ \E r \in processOutcomes(node, trees[t], i, j, k) :
                  DoProcess(t, i, j, k, r)

\* process with arguments that break its constraints, as the first call
\* after loading.
ProcessOut ==
    /\ Running
    /\ AfterLoad
    /\ \E t \in Handles :
         \E i \in 0..(trees[t].size + 1), j \in 0..(trees[t].size + 1),
            k \in 0..(trees[t].size + 1) :
            /\ ~ValidTriple(trees[t].size, i, j, k)
            /\ \E r \in processOutcomes(node, trees[t], i, j, k) :
                  DoProcess(t, i, j, k, r)


\* inOrder(tree): the caller reads the returned string.
DoRender(t) ==
    /\ result' = rendered(result, node, trees[t])
    /\ last' = [Call EXCEPT !.op = "inOrder", !.n = trees[t].size,
                              !.pre = inOrder(node, trees[t]), !.at = t]
    /\ UNCHANGED <<node, trees, frees>>

Render ==
    /\ Running
    /\ \E t \in Handles : DoRender(t)

\* destroyTree(tree), t = 0 standing for a NULL argument: the caller gives up
\* the tree.
DoDestroy(t, r) ==
    /\ frees' = [nodes |-> frees.nodes \o r.freed,
                 trees |-> frees.trees + r.trees,
                 peak |-> higher(frees.peak, r.peak)]
    /\ trees' = IF r.out = "ok" THEN without(trees, {t}, 1) ELSE trees
    /\ last' = [Call EXCEPT !.op = "destroyTree", !.args = <<t>>,
                              !.n = IF t = 0 THEN 0 ELSE trees[t].size,
                              !.pre = IF t = 0 THEN <<>> ELSE inOrder(node, trees[t]),
                              !.ret = IF t = 0 THEN NULL ELSE trees[t].root,
                              !.at = t, !.out = r.out]
    /\ UNCHANGED <<node, result>>

Destroy ==
    /\ Running
    /\ \E t \in 0..Len(trees) :
         \E r \in destroyOutcomes(node, IF t = 0 THEN NullTree ELSE trees[t]) :
            DoDestroy(t, r)

\* _rotateRight(tree, n) and _rotateLeft(tree, n), n being a node of the tree.
DoRotateRight(t, n) ==
    LET r == rotateRight([node |-> node, tree |-> trees[t]], n)
    IN  /\ node' = r.node
        /\ trees' = [trees EXCEPT ![t] = r.tree]
        /\ last' = [Call EXCEPT !.op = "rotateRight", !.args = <<n>>,
                                  !.n = trees[t].size,
                                  !.pre = inOrder(node, trees[t]), !.at = t]
        /\ Keep

RotateRight ==
    /\ Running
    /\ \E t \in Handles : \E n \in nodesOf(node, trees[t]) : DoRotateRight(t, n)

DoRotateLeft(t, n) ==
    LET r == rotateLeft([node |-> node, tree |-> trees[t]], n)
    IN  /\ node' = r.node
        /\ trees' = [trees EXCEPT ![t] = r.tree]
        /\ last' = [Call EXCEPT !.op = "rotateLeft", !.args = <<n>>,
                                  !.n = trees[t].size,
                                  !.pre = inOrder(node, trees[t]), !.at = t]
        /\ Keep

RotateLeft ==
    /\ Running
    /\ \E t \in Handles : \E n \in nodesOf(node, trees[t]) : DoRotateLeft(t, n)

\* insertSpecific(tree, c) and insert(tree, rank, c) when malloc has no memory
\* to give.
DoInsertSpecificNoMem(t, r) ==
    /\ node' = r.node
    /\ trees' = [trees EXCEPT ![t] = r.tree]
    /\ last' = [Call EXCEPT !.op = "insertSpecificNoMem", !.n = trees[t].size,
                              !.pre = inOrder(node, trees[t]),
                              !.at = t, !.out = r.out]
    /\ Keep

InsertSpecificNoMem ==
    /\ Running
    /\ AfterLoad
    /\ \E t \in Handles, ub \in UBOutcomes :
         DoInsertSpecificNoMem(t, insertSpecificNoMem([node |-> node, tree |-> trees[t]], ub))

DoInsertNoMem(t, rank, r) ==
    /\ node' = r.node
    /\ trees' = [trees EXCEPT ![t] = r.tree]
    /\ last' = [Call EXCEPT !.op = "insertNoMem", !.args = <<rank>>,
                              !.n = trees[t].size,
                              !.pre = inOrder(node, trees[t]),
                              !.at = t, !.out = r.out]
    /\ Keep

InsertNoMem ==
    /\ Running
    /\ last.op \in {"none", "insertSpecific", "locate"}
    /\ \E t \in Handles, ub \in UBOutcomes :
         \E rank \in 0..trees[t].size :
            DoInsertNoMem(t, rank, insertNoMem([node |-> node, tree |-> trees[t]], rank, ub))

\* ---------------------------------------------------------------- programs
\* The tree interface, every call with arguments that meet its documented
\* constraints: createTree, insertSpecific, insert, the locator, split, merge.
Next ==
    \/ CreateTree
    \/ InsertSpecific
    \/ Insert
    \/ Locate
    \/ Split
    \/ Merge

Spec == Init /\ [][Next]_vars

\* main: the loop that loads the text, insertSpecific on every character.
Load ==
    /\ AfterLoad
    /\ InsertSpecific

\* main: the loop that reads i, j, k and calls process(&tree, i, j, k).
Edit ==
    /\ last.op \in {"insertSpecific", "process"}
    /\ Process

\* main: printf(inOrder(tree));
Show ==
    /\ last.op \in {"none", "insertSpecific", "process"}
    /\ Render

\* main: destroyTree(tree);  and the same call made with a NULL tree.
Dispose ==
    /\ last.op = "inOrder"
    /\ Destroy

NextMain ==
    \/ Load
    \/ Edit
    \/ Show
    \/ Dispose

\* main, run on queries that meet the constraints process documents.
SpecMain == Init /\ [][NextMain]_vars

\* main's loading loop on a text of up to MaxText characters.
LoadText ==
    /\ Running
    /\ AfterLoad
    /\ Len(node) < MaxText
    /\ \E c \in NextChar : DoInsertSpecific(1, c)

\* The first query main reads, with any i, j, k up to the length of the text.
MoveOnce ==
    /\ Running
    /\ last.op = "insertSpecific"
    /\ \E i \in 0..trees[1].size, j \in 0..trees[1].size, k \in 0..trees[1].size :
         \E r \in processOutcomes(node, trees[1], i, j, k) : DoProcess(1, i, j, k, r)

NextScenario ==
    \/ LoadText
    \/ MoveOnce

\* main, run on one text and one query.
SpecScenario == Init /\ [][NextScenario]_vars

\* A caller that builds trees by bulk load and renders them, in any order.
NextRender ==
    \/ CreateTree
    \/ InsertSpecific
    \/ Render

SpecRender == Init /\ [][NextRender]_vars

\* A program that loads a text, looks characters up and then runs out of
\* memory in an insert.
Probe ==
    /\ last.op \in {"insertSpecific", "locate"}
    /\ Locate

NextNoMem ==
    \/ Load
    \/ Probe
    \/ InsertSpecificNoMem
    \/ InsertNoMem

SpecNoMem == Init /\ [][NextNoMem]_vars

\* A caller that adds characters at the end of a text and looks characters
\* up, in any order, and passes the locator or split a rank past the end of
\* the text.
LocatePast ==
    /\ Running
    /\ last.op \in {"none", "insertSpecific", "locate"}
    /\ \E t \in Handles :
         \E k \in trees[t].size..(trees[t].size + MaxOver - 1) : DoLocate(t, k)

SplitPast ==
    /\ Running
    /\ last.op \in {"insertSpecific", "locate"}
    /\ Len(trees) < MaxTrees
    /\ \E t \in Handles :
         \E rank \in trees[t].size..(trees[t].size + MaxOver - 1) :
            \E r \in splitOutcomes(node, trees[t], rank) : DoSplit(t, rank, r)

NextClamp ==
    \/ InsertSpecific
    \/ Probe
    \/ LocatePast
    \/ SplitPast

SpecClamp == Init /\ [][NextClamp]_vars

\* The rotations applied, one at a time, to any node of a tree that grows by
\* insertSpecific.
NextRotate ==
    \/ InsertSpecific
    \/ RotateRight
    \/ RotateLeft

SpecRotate == Init /\ [][NextRotate]_vars

\* A caller that loads a text and then makes a call whose arguments break the
\* documented constraints.
NextAny ==
    \/ Load
    \/ InsertOut
    \/ LocateOut
    \/ SplitOut
    \/ ProcessOut

SpecAny == Init /\ [][NextAny]_vars

\* ------------------------------------------------------------- observation
\* The last call returned to its caller.
Returned == last.out = "ok"

\* The text of the tree the last call left at index t of trees.
textAt(t) == inOrder(node, trees[t])

\* s is the text of a tree: the walk ended and reached no node twice (every
\* node holds a letter of its own).
IsText(s) ==
    \A x \in 1..Len(s) : s[x] # "~" /\ \A y \in 1..Len(s) : s[x] = s[y] => x = y

\* S with the positions i..j (0-based) removed.
removed(S, i, j) == SubSeq(S, 1, i) \o SubSeq(S, j + 2, Len(S))

\* R[0..k) ++ S[i..j] ++ R[k..), R being S with the positions i..j removed.
moved(S, i, j, k) ==
    SubSeq(removed(S, i, j), 1, k) \o SubSeq(S, i + 1, j + 1)
      \o SubSeq(removed(S, i, j), k + 1, Len(removed(S, i, j)))

\* The arguments of the last call break the constraint its function documents.
OutOfRange ==
    \/ last.op \in {"locate", "split"} /\ last.args[1] >= last.n
    \/ last.op = "insert" /\ last.args[1] > last.n
    \/ last.op = "process"
         /\ ~ValidTriple(last.n, last.args[1], last.args[2], last.args[3])

\* ------------------------------------------------------------------ claims
\* C1: for a text S of length n >= 1 built by bulk load (and the valid process
\* calls made so far) and every (i, j, k) with 0 <= i <= j <= n-1 and
\* 0 <= k <= n-(j-i+1), process returns and the rendered text is
\* R[0..k) ++ S[i..j] ++ R[k..), R being S with the positions i..j removed;
\* k = 0 and a cut of the whole text included.
C1_ProcessNetEffect ==
    (last.op = "process"
       /\ ValidTriple(last.n, last.args[1], last.args[2], last.args[3])) =>
        /\ Returned
        /\ textAt(last.at) = moved(last.pre, last.args[1], last.args[2], last.args[3])

\* A second or later valid process call that cut a range from inside the text
\* and pasted it after a non-empty prefix.
C1_Witness ==
    /\ last.op = "process" /\ Returned
    /\ last.n = MaxNodes
    /\ last.pre # SubSeq(Letters, 1, MaxNodes)
    /\ last.args[1] > 0 /\ last.args[3] > 0 /\ last.args[2] < last.n - 1
    /\ textAt(last.at) # last.pre

\* C2 as the specification states it: "abcdef", then moveRange(0, 2, 4),
\* renders "deabcf".
C2_ScenarioA ==
    (last.op = "process" /\ last.pre = <<"a", "b", "c", "d", "e", "f">>
       /\ last.args = <<0, 2, 4>>) =>
        (Returned /\ textAt(1) = <<"d", "e", "a", "b", "c", "f">>)

\* C2 amended: "abcdef", then moveRange(0, 2, 2), renders "deabcf": the cut
\* leaves "def" and the range is pasted after "de".  k = 4 is past the 3
\* characters that remain, so moveRange(0, 2, 4) is not a valid call.
C2_ScenarioA_Amended ==
    (last.op = "process" /\ last.pre = <<"a", "b", "c", "d", "e", "f">>
       /\ last.args = <<0, 2, 2>>) =>
        /\ ValidTriple(last.n, last.args[1], last.args[2], last.args[3])
        /\ ~ValidTriple(last.n, 0, 2, 4)
        /\ Returned
        /\ textAt(1) = <<"d", "e", "a", "b", "c", "f">>

\* moveRange(0, 2, 2) has been called on "abcdef" and has returned.
C2_Witness ==
    /\ last.op = "process" /\ Returned
    /\ last.pre = <<"a", "b", "c", "d", "e", "f">>
    /\ last.args = <<0, 2, 2>>
    /\ Len(textAt(1)) = 6

\* C3: after any sequence of public operations with valid arguments, every
\* node reachable from the root of a live tree has
\* size = 1 + size(left) + size(right), an absent child counting 0.
C3_SizeInvariant ==
    Returned =>
        \A t \in Handles : \A n \in nodesOf(node, trees[t]) : sizeAgrees(node, n)

\* C4: after any sequence of public operations with valid arguments, parent
\* and child links agree in every live tree: the root has no parent and every
\* child names as its parent the node whose child it is.
C4_LinksAgree ==
    Returned =>
        \A t \in Handles :
            /\ trees[t].root # NULL => node[trees[t].root].parent = NULL
            /\ \A n \in nodesOf(node, trees[t]) : childrenAgree(node, n)

\* C5: a call of locate, split, insert or process with an index outside its
\* bound is detected and an error is signalled to the caller, whatever the
\* build: the call neither goes on as if the index were valid nor reaches an
\* absent node.
C5_RangeErrorSignalled ==
    (last.op \in {"locate", "split", "insert", "process"} /\ OutOfRange) =>
        last.out = "exit"

\* C6: a process call whose arguments break 0 <= i <= j <= size-1 or
\* 0 <= k <= size-(j-i+1) fails before it changes anything or leaves the tree
\* as it was: the links, the sizes and the rendered text are those from before
\* the call.
C6_InvalidProcessHarmless ==
    [][(last'.op = "process"
          /\ ~ValidTriple(last'.n, last'.args[1], last'.args[2], last'.args[3])) =>
         (last'.out \in {"ok", "exit"} /\ node' = node /\ trees' = trees)]_vars

\* C7: for every tree T reachable by valid operations and every k with
\* 0 <= k < size(T), locate(T, k) returns the node whose character is the
\* k-th (0-based) of T's in-order sequence taken just before the call.
C7_LocateFindsRank ==
    (last.op = "locate" /\ last.args[1] < last.n /\ IsText(last.pre)) =>
        /\ Returned
        /\ last.ret # NULL
        /\ node[last.ret].value = last.pre[last.args[1] + 1]

\* C8: splitting a non-empty tree T reachable by valid operations at a valid
\* rank and then merging the two trees handed back yields a tree whose
\* in-order sequence is the one T had before the split.
C8_SplitMergeRoundTrip ==
    /\ (last.op = "split" /\ last.args[1] < last.n /\ IsText(last.pre)) => Returned
    /\ (last.op = "merge" /\ last.rt # <<>> /\ IsText(last.rt[1])) =>
          /\ Returned
          /\ last.at = 1
          /\ textAt(1) = last.rt[1]

\* C9: split(T, rank) with 0 <= rank < size(T) hands back leftTree holding
\* S[0..rank], rooted at the node formerly at position rank and with no right
\* child, and rightTree holding S[rank+1..end]; for rank = size(T)-1 rightTree
\* is the empty tree (root null, size 0).
C9_SplitParts ==
    (last.op = "split" /\ last.args[1] < last.n /\ IsText(last.pre)) =>
        /\ Returned
        /\ textAt(last.at) = SubSeq(last.pre, 1, last.args[1] + 1)
        /\ textAt(last.at2) = SubSeq(last.pre, last.args[1] + 2, Len(last.pre))
        /\ trees[last.at].root = last.ret
        /\ node[last.ret].value = last.pre[last.args[1] + 1]
        /\ node[last.ret].right = NULL
        /\ last.args[1] = last.n - 1 => trees[last.at2] = createTree

\* C10: for all trees tree1 and tree2 (two trees: no node is in both, none is
\* reached twice) with in-order sequences S1 and S2, merge(tree1, tree2)
\* returns a tree whose in-order sequence is S1 ++ S2; an empty tree or a NULL
\* handle counts as the empty sequence, and merging with it returns the other
\* tree with its sequence unchanged.
C10_MergeConcatenates ==
    (last.op = "merge" /\ IsText(last.pre \o last.pre2)) =>
        /\ Returned
        /\ IF last.at = 0
           THEN last.pre \o last.pre2 = <<>>
           ELSE textAt(last.at) = last.pre \o last.pre2

\* merge has joined two trees that both held characters.
C10_Witness ==
    /\ last.op = "merge" /\ Returned
    /\ last.pre # <<>> /\ last.pre2 # <<>>
    /\ IsText(last.pre \o last.pre2)
    /\ Len(textAt(1)) = Len(last.pre) + Len(last.pre2)

\* C11: whenever inOrder is called on a tree, the character sequence it
\* returns is as long as the tree's size field says: also on an empty tree,
\* and after an earlier call on a larger tree.
C11_RenderedLength ==
    last.op = "inOrder" => Len(result) = last.n

\* C12: after any sequence of valid operations, the cached size of every live
\* tree handle equals the size field of its root, and 0 when its root is null.
C12_HandleSize ==
    Returned =>
        \A t \in Handles : trees[t].size = sizeOf(node, trees[t].root)

\* C13: process with valid arguments creates and destroys no node: the nodes
\* reachable from the root after the call are those reachable before it, every
\* node keeps its character, and the size of the tree is unchanged.
C13_ProcessFrame ==
    [][(last'.op = "process"
          /\ ValidTriple(last'.n, last'.args[1], last'.args[2], last'.args[3])) =>
         /\ last'.out = "ok"
         /\ Len(node') = Len(node)
         /\ nodesOf(node', trees'[last'.at]) = nodesOf(node, trees[last'.at])
         /\ \A n \in DOMAIN node : node'[n].value = node[n].value
         /\ trees'[last'.at].size = trees[last'.at].size
         /\ frees' = frees]_vars

\* A valid process call has moved a range of a full-length text to the front.
C13_Witness ==
    /\ last.op = "process" /\ Returned
    /\ last.n = MaxNodes /\ last.args[1] > 0 /\ last.args[3] = 0
    /\ Cardinality(nodesOf(node, trees[last.at])) = MaxNodes
    /\ frees = NoFrees

\* C14: insert(tree, rank, value) with 0 <= rank <= size yields the text
\* S[0..rank) ++ [value] ++ S[rank..), size + 1 and the new node as root; and a
\* later valid locate on the tree behaves as on a tree built by bulk load with
\* the same text: it returns the node at the rank asked for and leaves the text
\* as it was.
C14_InsertThenUse ==
    /\ (last.op = "insert" /\ last.args[1] <= last.n /\ IsText(last.pre)) =>
          /\ Returned
          /\ textAt(last.at) = SubSeq(last.pre, 1, last.args[1])
                                 \o <<node[last.ret].value>>
                                 \o SubSeq(last.pre, last.args[1] + 1, Len(last.pre))
          /\ trees[last.at].size = last.n + 1
          /\ trees[last.at].root = last.ret
    /\ (last.op = "locate" /\ last.args[1] < last.n /\ IsText(last.pre)) =>
          /\ Returned
          /\ last.ret # NULL
          /\ node[last.ret].value = last.pre[last.args[1] + 1]
          /\ textAt(last.at) = last.pre

\* The characters given to createNode so far, in the order of the calls.
loaded == [n \in DOMAIN node |-> node[n].value]

\* C15: loading a sequence s by repeated insertSpecific gives a tree whose
\* text is s and whose size is |s|; for the empty sequence the tree renders
\* as the empty sequence and destroyTree completes, freeing only the tree.
C15_BulkLoad ==
    /\ last.op \in {"none", "insertSpecific"} =>
          /\ Returned
          /\ textAt(1) = loaded
          /\ trees[1].size = Len(loaded)
    /\ (last.op = "inOrder" /\ loaded = <<>>) => result = <<>>
    /\ (last.op = "destroyTree" /\ loaded = <<>>) =>
          /\ Returned
          /\ frees.nodes = <<>>
          /\ last.at = 1 => frees.trees = 1 /\ trees = <<>>

C15_Witness ==
    /\ last.op = "insertSpecific"
    /\ Len(loaded) = MaxNodes
    /\ textAt(1) = loaded
    /\ node[trees[1].root].left # NULL

\* C16: destroyTree on a tree built by loading and valid process calls frees
\* every node reachable from the root exactly once, fills neither stack
\* beyond tree.size entries and then frees the tree itself; given a NULL tree
\* it frees nothing.
C16_DestroyFreesAll ==
    last.op = "destroyTree" =>
        /\ Returned
        /\ last.at = 0 => frees = NoFrees /\ Len(trees) = 1
        /\ last.at # 0 =>
              /\ {frees.nodes[x] : x \in DOMAIN frees.nodes} = reach(node, {last.ret} \ {NULL}, {})
              /\ \A x, y \in DOMAIN frees.nodes : frees.nodes[x] = frees.nodes[y] => x = y
              /\ Len(frees.nodes) = last.n
              /\ frees.peak <= last.n
              /\ frees.trees = 1
              /\ trees = <<>>

C16_Witness ==
    /\ last.op = "destroyTree"
    /\ last.at = 1
    /\ Len(frees.nodes) = MaxNodes
    /\ frees.peak = 3
    /\ node[last.ret].left # NULL
    /\ node[last.ret].right # NULL

\* C17: when the allocation of the node fails in insertSpecific or in insert,
\* the failure is reported as an error and the tree is left as it was.
C17_NoMemSurfaced ==
    [][last'.op \in {"insertSpecificNoMem", "insertNoMem"} =>
          /\ last'.out = "exit"
          /\ node' = node
          /\ trees' = trees]_vars

\* C18: on every tree reached by valid calls, general insert included, the
\* splay of the node the locator found comes to an end (every pass of its
\* loop brings the node nearer to the root), and when it ends the node has no
\* parent and is the root of the tree.
C18_SplayReachesRoot ==
    (last.op = "locate" /\ last.args[1] < last.n) =>
        /\ last.out # "hang"
        /\ last.ret # NULL
        /\ node[last.ret].parent = NULL
        /\ trees[last.at].root = last.ret

\* C19: with the bounds checks compiled out, the locator given k >= size on a
\* tree that is not empty reports no error, returns the node of the last
\* character and splays it to the root, the text staying as it was; split
\* given rank >= size leaves what split given size - 1 leaves; on an empty
\* tree the locator returns NULL.
C19_PastTheEnd ==
    [][/\ (last'.op = "locate" /\ last'.args[1] >= last'.n /\ last'.n > 0) =>
             /\ last'.out = "ok"
             /\ last'.ret # NULL
             /\ node'[last'.ret].value = last'.pre[Len(last'.pre)]
             /\ node'[last'.ret].parent = NULL
             /\ trees'[last'.at].root = last'.ret
             /\ inOrder(node', trees'[last'.at]) = inOrder(node, trees[last'.at])
             /\ trees'[last'.at].size = trees[last'.at].size
       /\ (last'.op = "locate" /\ last'.n = 0) =>
             /\ last'.out = "ok"
             /\ last'.ret = NULL
             /\ node' = node
             /\ trees' = trees
       /\ (last'.op = "split" /\ last'.args[1] >= last'.n /\ last'.n > 0) =>
             \E r \in splitOutcomes(node, trees[last'.at], last'.n - 1) :
                /\ last'.out = "ok"
                /\ r.out = "ok"
                /\ node' = r.node
                /\ trees' = Append([trees EXCEPT ![last'.at] = r.tree1], r.tree2)]_vars

C19_Witness ==
    /\ last.op = "split"
    /\ last.args[1] > last.n
    /\ last.n = MaxNodes
    /\ Returned
    /\ inOrder(node, trees[1]) = last.pre
    /\ trees[2].root = NULL
    /\ node[trees[1].root].left # NULL
    /\ node[node[trees[1].root].left].right # NULL

\* The child a rotation of n promotes, in the heap h: the left child for
\* rotateRight, the right child for rotateLeft.
promoted(h, op, n) == IF op = "rotateRight" THEN h[n].left ELSE h[n].right

\* C20: rotateRight and rotateLeft, applied to any node of a well-formed tree,
\* keep the in-order sequence and the set of nodes; where the node had no
\* parent the promoted child becomes tree.root, otherwise it takes the node's
\* place in the same child slot of that parent; where the child to promote is
\* absent nothing changes.
C20_RotationKeepsOrder ==
    [][last'.op \in {"rotateRight", "rotateLeft"} =>
         /\ inOrder(node', trees'[last'.at]) = inOrder(node, trees[last'.at])
         /\ nodesOf(node', trees'[last'.at]) = nodesOf(node, trees[last'.at])
         /\ promoted(node, last'.op, last'.args[1]) = NULL =>
               node' = node /\ trees' = trees
         /\ (/\ promoted(node, last'.op, last'.args[1]) # NULL
             /\ node[last'.args[1]].parent = NULL) =>
               /\ trees'[last'.at].root = promoted(node, last'.op, last'.args[1])
               /\ node'[trees'[last'.at].root].parent = NULL
         /\ (/\ promoted(node, last'.op, last'.args[1]) # NULL
             /\ node[last'.args[1]].parent # NULL) =>
               /\ trees'[last'.at].root = trees[last'.at].root
               /\ node[node[last'.args[1]].parent].left = last'.args[1] =>
                     /\ node'[node[last'.args[1]].parent].left =
                           promoted(node, last'.op, last'.args[1])
                     /\ node'[node[last'.args[1]].parent].right =
                           node[node[last'.args[1]].parent].right
               /\ node[node[last'.args[1]].parent].left # last'.args[1] =>
                     /\ node'[node[last'.args[1]].parent].right =
                           promoted(node, last'.op, last'.args[1])
                     /\ node'[node[last'.args[1]].parent].left =
                           node[node[last'.args[1]].parent].left
               /\ node'[promoted(node, last'.op, last'.args[1])].parent =
                     node[last'.args[1]].parent]_vars

\* A left rotation has promoted the right child of a node that was itself a
\* right child, and handed the node the promoted child's left subtree.
C20_Witness ==
    /\ last.op = "rotateLeft"
    /\ node[last.args[1]].parent # NULL
    /\ node[node[last.args[1]].parent].left = last.args[1]
    /\ node[node[last.args[1]].parent].parent # NULL
    /\ node[node[node[last.args[1]].parent].parent].right = node[last.args[1]].parent
    /\ node[last.args[1]].right # NULL
    /\ inOrder(node, trees[last.at]) = last.pre
    /\ Len(last.pre) = MaxNodes
====
